---------------------------- MODULE Spec2Model ----------------------------
(***************************************************************************)
(* A model of the document enrichment pipeline of zotero-arxiv-daily       *)
(* (paper.py: class ArxivPaper) and of the sender of its cards             *)
(* (feishu_bot.py: send_feishu_message).                                   *)
(*                                                                         *)
(* Text is a sequence of symbols.  A symbol is one character ("\\" is the  *)
(* single backslash, "%", "\n", " ", "a") or a word that the regular       *)
(* expressions of paper.py treat as a unit after a backslash               *)
(* ("begin{comment}", "iffalse", "begin{document}", ...).  Every regular   *)
(* expression and string method is an operator that computes, on such      *)
(* sequences, what the Python call computes on the characters.             *)
(*                                                                         *)
(* Optional values: None is the empty tuple, Some(v) the one-tuple <<v>>.  *)
(***************************************************************************)
EXTENDS Integers, Sequences, FiniteSets, TLC

VARIABLES
    text, once, twice, npc,       \* SpecNorm: a text, its normalization, and again
    arA, arB, docA, docB, tpc,    \* SpecTex: two archives and their assembled documents
    elems, affOut, spc,           \* SpecScrape: scraped elements and the list made of them
    figPage, figReply, figOut, fpc, \* SpecFigure: a page, a reply and the selection
    cache, runs, last, nacc,      \* Spec: one ArxivPaper record and the reads made of it
    paper, paper0, idCache, srcLast, nsrc, \* SpecSource: the wrapped source record
    grouped, sent, success, bpos, bpc, ret \* SpecBot: one call of send_feishu_message

normVars == <<text, once, twice, npc>>
texVars == <<arA, arB, docA, docB, tpc>>
scrapeVars == <<elems, affOut, spc>>
figVars == <<figPage, figReply, figOut, fpc>>
recVars == <<cache, runs, last, nacc>>
srcVars == <<paper, paper0, idCache, srcLast, nsrc>>
botVars == <<grouped, sent, success, bpos, bpc, ret>>
vars == <<text, once, twice, npc, arA, arB, docA, docB, tpc, elems, affOut, spc,
          figPage, figReply, figOut, fpc, cache, runs, last, nacc,
          paper, paper0, idCache, srcLast, nsrc,
          grouped, sent, success, bpos, bpc, ret>>

None == <<>>
Some(v) == <<v>>

BS == "\\"
NL == "\n"
SP == " "

Range(s) == {s[i] : i \in 1..Len(s)}

(* the variables of a specification that another specification leaves alone *)
NormIdle == text = <<>> /\ once = None /\ twice = None /\ npc = "idle"

TexIdle == arA = <<>> /\ arB = <<>> /\ docA = None /\ docB = None /\ tpc = "idle"

ScrapeIdle == elems = <<>> /\ affOut = None /\ spc = "idle"

FigIdle == figPage = None /\ figReply = None /\ figOut = None /\ fpc = "idle"

RecIdle == cache = None /\ runs = None /\ last = None /\ nacc = 0

SrcIdle ==
    paper = None /\ paper0 = None /\ idCache = None /\ srcLast = None /\ nsrc = 0

BotIdle ==
    /\ grouped = <<>> /\ sent = <<>> /\ success = TRUE
    /\ bpos = None /\ bpc = "idle" /\ ret = None

(***************************************************************************)
(* Text normalization, paper.py lines 135-143.                             *)
(***************************************************************************)

(* least j >= i with s[j] = c, or 0 *)
IndexFrom(s, i, c) ==
    LET hits == {j \in i..Len(s) : s[j] = c}
    IN  IF hits = {} THEN 0 ELSE CHOOSE j \in hits : \A k \in hits : j <= k

(* s[i], s[i+1] is a backslash followed by the word w *)
IsCmd(s, i, w) == i + 1 <= Len(s) /\ s[i] = BS /\ s[i + 1] = w

(* least j >= i where the command \w starts, or 0 *)
CmdFrom(s, i, w) ==
    LET hits == {j \in i..Len(s) : IsCmd(s, j, w)}
    IN  IF hits = {} THEN 0 ELSE CHOOSE j \in hits : \A k \in hits : j <= k

(* re.sub(r'%.*\n', '\n', content): "." does not match the newline, so a   *)
(* match runs from a "%" to the first newline after it; a "%" with no      *)
(* newline after it is left in place.                                      *)
RECURSIVE SubLineComment(_, _)
SubLineComment(s, i) ==
    IF i > Len(s) THEN <<>>
    ELSE IF s[i] = "%" /\ IndexFrom(s, i + 1, NL) # 0
         THEN <<NL>> \o SubLineComment(s, IndexFrom(s, i + 1, NL) + 1)
         ELSE <<s[i]>> \o SubLineComment(s, i + 1)

StripLineComments(s) == SubLineComment(s, 1)

(* re.sub(r'\\open.*?\\close', '', content, flags=re.DOTALL): leftmost,    *)
(* non-greedy, non-overlapping.                                            *)
RECURSIVE SubRegion(_, _, _, _)
SubRegion(s, i, open, close) ==
    IF i > Len(s) THEN <<>>
    ELSE IF IsCmd(s, i, open) /\ CmdFrom(s, i + 2, close) # 0
         THEN SubRegion(s, CmdFrom(s, i + 2, close) + 2, open, close)
         ELSE <<s[i]>> \o SubRegion(s, i + 1, open, close)

StripCommentBlocks(s) == SubRegion(s, 1, "begin{comment}", "end{comment}")

StripIffalse(s) == SubRegion(s, 1, "iffalse", "fi")

(* re.sub(r'\n+', '\n', content) *)
CollapseNewlines(s) ==
    LET keep == {i \in 1..Len(s) : ~(s[i] = NL /\ i > 1 /\ s[i - 1] = NL)}
        RECURSIVE Pick(_)
        Pick(i) == IF i > Len(s) THEN <<>>
                   ELSE IF i \in keep THEN <<s[i]>> \o Pick(i + 1)
                   ELSE Pick(i + 1)
    IN  Pick(1)

(* re.sub(r'\\\\', '', content): pairs of backslashes, left to right *)
RECURSIVE SubLineBreak(_, _)
SubLineBreak(s, i) ==
    IF i > Len(s) THEN <<>>
    ELSE IF i + 1 <= Len(s) /\ s[i] = BS /\ s[i + 1] = BS
         THEN SubLineBreak(s, i + 2)
         ELSE <<s[i]>> \o SubLineBreak(s, i + 1)

RemoveLineBreaks(s) == SubLineBreak(s, 1)

HSpace == {" ", "\t", "\r", "\f"}

MinRun == 3

(* length of the maximal run of horizontal whitespace starting at i *)
RunLen(s, i) ==
    LET stops == {j \in i..Len(s) : s[j] \notin HSpace}
    IN  IF stops = {} THEN Len(s) - i + 1
        ELSE (CHOOSE j \in stops : \A k \in stops : j <= k) - i

(* re.sub(r'[ \t\r\f]{3,}', ' ', content) *)
RECURSIVE SubSpaces(_, _)
SubSpaces(s, i) ==
    IF i > Len(s) THEN <<>>
    ELSE IF s[i] \in HSpace
         THEN (IF RunLen(s, i) >= MinRun THEN <<SP>>
               ELSE SubSeq(s, i, i + RunLen(s, i) - 1))
              \o SubSpaces(s, i + RunLen(s, i))
         ELSE <<s[i]>> \o SubSpaces(s, i + 1)

CollapseSpaces(s) == SubSpaces(s, 1)

(* lines 136-143, in the order of the code *)
Normalize(s) ==
    CollapseSpaces(RemoveLineBreaks(CollapseNewlines(StripIffalse(
        StripCommentBlocks(StripLineComments(s))))))

(***************************************************************************)
(* The document assembler, ArxivPaper.tex, paper.py lines 100-163.         *)
(*                                                                         *)
(* A file name is a sequence of symbols, the last one its extension:       *)
(* <<"paper", ".tex">> is paper.tex.  An archive is the sequence of its    *)
(* members [name, data] in the order tar.getnames() lists them.  A dict is *)
(* the sequence of its [key, val] items in insertion order.                *)
(***************************************************************************)

TEX == ".tex"
BBL == ".bbl"
AllKey == <<"all">>

(* str.endswith *)
EndsWith(name, ext) == Len(name) > 0 /\ name[Len(name)] = ext

(* str.replace(old, ''): every occurrence of the symbol is removed *)
Remove(name, old) == SelectSeq(name, LAMBDA t : t # old)

Names(ar) == [i \in 1..Len(ar) |-> ar[i].name]

DictHas(d, k) == \E i \in 1..Len(d) : d[i].key = k

(* dict.get(k, default) *)
DictGet(d, k, default) ==
    IF DictHas(d, k) THEN d[CHOOSE i \in 1..Len(d) : d[i].key = k].val
    ELSE default

(* d[k] = v *)
DictSet(d, k, v) ==
    IF DictHas(d, k)
    THEN [i \in 1..Len(d) |-> IF d[i].key = k THEN [key |-> k, val |-> v] ELSE d[i]]
    ELSE Append(d, [key |-> k, val |-> v])

(* dict.values() *)
DictValues(d) == [i \in 1..Len(d) |-> d[i].val]

(* line 106 *)
TexFiles(names) == SelectSeq(names, LAMBDA f : EndsWith(f, TEX))

(* line 111 *)
BblFiles(names) == SelectSeq(names, LAMBDA f : EndsWith(f, BBL))

(* lines 112-127: the main file the names alone designate, or None *)
MainFromBbl(names) ==
    LET tex_files == TexFiles(names)
        bbl_file == BblFiles(names)
    IN  IF Len(bbl_file) = 0
        THEN IF Len(tex_files) > 1 THEN None ELSE Some(tex_files[1])
        ELSE IF Len(bbl_file) = 1
             THEN LET main_tex == Remove(bbl_file[1], BBL) \o <<TEX>>
                  IN  IF main_tex \in Range(tex_files) THEN Some(main_tex)
                      ELSE None
             ELSE None

(* tar.extractfile(t).read(): the data of the member named t *)
ExtractFile(ar, t) == ar[CHOOSE i \in 1..Len(ar) : ar[i].name = t].data

(* re.search(r'\\begin\{document\}', content) *)
HasDocBegin(s) == CmdFrom(s, 1, "begin{document}") # 0

(* a plausible slip: the test "main_tex is None" of line 144 left out, so   *)
(* that a later file with the marker replaces the designated main file     *)
RECURSIVE ReadFilesLastWins(_, _, _, _, _)
ReadFilesLastWins(ar, tex_files, i, main_tex, file_contents) ==
    IF i > Len(tex_files) THEN [main |-> main_tex, contents |-> file_contents]
    ELSE LET t == tex_files[i]
             content == Normalize(ar[CHOOSE k \in 1..Len(ar) : ar[k].name = t].data)
             main2 == IF CmdFrom(content, 1, "begin{document}") # 0
                      THEN Some(t) ELSE main_tex
         IN  ReadFilesLastWins(ar, tex_files, i + 1, main2,
                               DictSet(file_contents, t, Some(content)))

(* lines 131-147: every .tex file is read and normalized; while no main    *)
(* file is designated, the first file whose normalized text holds the      *)
(* document-begin marker becomes the main file.                            *)
RECURSIVE ReadFiles(_, _, _, _, _)
ReadFiles(ar, tex_files, i, main_tex, file_contents) ==
    IF i > Len(tex_files) THEN [main |-> main_tex, contents |-> file_contents]
    ELSE LET t == tex_files[i]
             content == Normalize(ExtractFile(ar, t))
             main2 == IF main_tex = None /\ HasDocBegin(content)
                      THEN Some(t) ELSE main_tex
         IN  ReadFiles(ar, tex_files, i + 1, main2,
                       DictSet(file_contents, t, Some(content)))

(* re.findall(r'\\word(.+?)\}', s) with word = "input{" or "include{":     *)
(* the group is one or more symbols other than the newline, up to the      *)
(* first "}" that follows them.                                            *)
GroupEnd(s, i) ==
    LET hits == {j \in (i + 1)..Len(s) :
                    s[j] = "}" /\ \A k \in i..(j - 1) : s[k] # NL}
    IN  IF i > Len(s) \/ hits = {} THEN 0
        ELSE CHOOSE j \in hits : \A k \in hits : j <= k

RECURSIVE FindAll(_, _, _)
FindAll(s, i, word) ==
    IF i > Len(s) THEN <<>>
    ELSE IF IsCmd(s, i, word) /\ GroupEnd(s, i + 2) # 0
         THEN <<SubSeq(s, i + 2, GroupEnd(s, i + 2) - 1)>>
              \o FindAll(s, GroupEnd(s, i + 2) + 1, word)
         ELSE FindAll(s, i + 1, word)

(* str.replace(pat, rep): every occurrence, left to right *)
RECURSIVE ReplaceAll(_, _, _, _)
ReplaceAll(s, i, pat, rep) ==
    IF i > Len(s) THEN <<>>
    ELSE IF i + Len(pat) - 1 <= Len(s) /\ SubSeq(s, i, i + Len(pat) - 1) = pat
         THEN rep \o ReplaceAll(s, i + Len(pat), pat, rep)
         ELSE <<s[i]>> \o ReplaceAll(s, i + 1, pat, rep)

(* lines 153-158: for each reference found in the main file, in order, the *)
(* text \input{f} is replaced by the normalized text of f (or f.tex), or   *)
(* by nothing when the archive holds no such file.                         *)
RECURSIVE InlineLoop(_, _, _, _)
InlineLoop(main_source, include_files, i, file_contents) ==
    IF i > Len(include_files) THEN main_source
    ELSE LET f == include_files[i]
             file_name == IF ~EndsWith(f, TEX) THEN f \o <<TEX>> ELSE f
             sub == DictGet(file_contents, file_name, Some(<<>>))[1]
         IN  InlineLoop(ReplaceAll(main_source, 1, <<BS, "input{">> \o f \o <<"}">>, sub),
                        include_files, i + 1, file_contents)

(* lines 149-162 *)
Inline(main_tex, file_contents) ==
    IF main_tex # None
    THEN LET main_source == DictGet(file_contents, main_tex[1], None)[1]
             include_files == FindAll(main_source, 1, "input{")
                              \o FindAll(main_source, 1, "include{")
         IN  DictSet(file_contents, AllKey,
                     Some(InlineLoop(main_source, include_files, 1, file_contents)))
    ELSE DictSet(file_contents, AllKey, None)

(* lines 106-163 on an opened archive: [main, tex] where tex is the value  *)
(* the property returns (None, or Some(file_contents)) and main is the     *)
(* local main_tex at line 149.                                             *)
Assemble(ar) ==
    LET tex_files == TexFiles(Names(ar))
    IN  IF Len(tex_files) = 0 THEN [main |-> None, tex |-> None]
        ELSE LET r == ReadFiles(ar, tex_files, 1, MainFromBbl(Names(ar)), <<>>)
             IN  [main |-> r.main, tex |-> Some(Inline(r.main, r.contents))]

(***************************************************************************)
(* The affiliation resolver, page-scrape strategy, paper.py lines 272-301. *)
(* A scraped element is the text elem.get_text(strip=True) gives, a        *)
(* sequence of characters.                                                 *)
(***************************************************************************)

MinAffLen == 2
AffTruncLen == 80
MaxAffs == 5

Rep(c, n) == [i \in 1..n |-> c]

(* s[:n] *)
Prefix(s, n) == SubSeq(s, 1, IF Len(s) < n THEN Len(s) ELSE n)

(* lines 286-289: the texts longer than 2 characters, each once, in order  *)
RECURSIVE CollectTexts(_, _, _)
CollectTexts(affil_elements, i, affiliations) ==
    IF i > Len(affil_elements) THEN affiliations
    ELSE LET t == affil_elements[i]
         IN  CollectTexts(affil_elements, i + 1,
                 IF t # <<>> /\ Len(t) > MinAffLen /\ t \notin Range(affiliations)
                 THEN Append(affiliations, t) ELSE affiliations)

(* lines 293-300: each text cut to 80 characters, kept if not seen before  *)
RECURSIVE UniqueTruncated(_, _, _)
UniqueTruncated(affiliations, i, unique_affiliations) ==
    IF i > Len(affiliations) THEN unique_affiliations
    ELSE LET aff_clean == Prefix(affiliations[i], AffTruncLen)
         IN  UniqueTruncated(affiliations, i + 1,
                 IF aff_clean \notin Range(unique_affiliations)
                 THEN Append(unique_affiliations, aff_clean)
                 ELSE unique_affiliations)

(* a plausible slip: the list is cut to 5 entries before the duplicates    *)
(* are dropped, and entries are compared before they are truncated         *)
ScrapeAffiliationsNoDedup(affil_elements) ==
    LET affiliations == CollectTexts(affil_elements, 1, <<>>)
    IN  IF affiliations # <<>>
        THEN Some(Prefix([i \in 1..Len(affiliations) |->
                            Prefix(affiliations[i], AffTruncLen)], MaxAffs))
        ELSE None

(* lines 272-301 on the elements the page yields: Some(list) when the      *)
(* scrape has entries (line 301), None when line 304 is reached            *)
ScrapeAffiliations(affil_elements) ==
    LET affiliations == CollectTexts(affil_elements, 1, <<>>)
    IN  IF affiliations # <<>>
        THEN Some(Prefix(UniqueTruncated(affiliations, 1, <<>>), MaxAffs))
        ELSE None

(***************************************************************************)
(* The affiliation resolver, document strategy: the model's reply parsed,  *)
(* paper.py lines 248-256.  A reply is a sequence of symbols: "[", "]",    *)
(* ",", a quoted string such as "'MIT'", or any other word.                *)
(***************************************************************************)

(* the string a literal denotes, as its characters *)
Unquote ==
    [q \in {"'MIT'", "'CMU'"} |->
        IF q = "'MIT'" THEN <<"M", "I", "T">> ELSE <<"C", "M", "U">>]

(* eval of the text between the brackets: a list of string literals, or an *)
(* exception (NameError, SyntaxError) for anything else                    *)
IsListBody(inner) ==
    \/ inner = <<>>
    \/ /\ Len(inner) % 2 = 1
       /\ \A i \in 1..Len(inner) :
            IF i % 2 = 1 THEN inner[i] \in DOMAIN Unquote ELSE inner[i] = ","

(* lines 249-252: re.search(r'\[.*?\]'), eval, list(set(...)), str.  The   *)
(* order in which list(set(...)) lists the strings is not defined: order   *)
(* is one listing of all the strings, and the result follows it.  None     *)
(* when any step raises (line 253-255).                                    *)
ParseAffiliations(reply, order) ==
    LET i == IndexFrom(reply, 1, "[")
        j == IF i = 0 THEN 0 ELSE IndexFrom(reply, i + 1, "]")
        inner == SubSeq(reply, i + 1, j - 1)
        found == {Unquote[inner[k]] : k \in {k \in 1..Len(inner) : k % 2 = 1}}
    IN  IF i = 0 \/ j = 0 THEN None
        ELSE IF ~IsListBody(inner) THEN None
        ELSE Some(SelectSeq(order, LAMBDA a : a \in found))

(* lines 223-225: one of the two author-information regions is found *)
HasAuthorRegion(content) ==
    \/ (CmdFrom(content, 1, "author") # 0
        /\ CmdFrom(content, CmdFrom(content, 1, "author") + 2, "maketitle") # 0)
    \/ (CmdFrom(content, 1, "begin{document}") # 0
        /\ CmdFrom(content, CmdFrom(content, 1, "begin{document}") + 2,
                   "begin{abstract}") # 0)

(* "\n".join(values): TypeError when a value is None *)
JoinLines(values) ==
    LET RECURSIVE Cat(_)
        Cat(i) == IF i > Len(values) THEN <<>>
                  ELSE IF i = 1 THEN values[i][1] \o Cat(i + 1)
                  ELSE <<NL>> \o values[i][1] \o Cat(i + 1)
    IN  IF \E i \in 1..Len(values) : values[i] = None
        THEN [raised |-> TRUE, val |-> <<>>]
        ELSE [raised |-> FALSE, val |-> Cat(1)]

(* lines 170-172 and 219-221: the text of the assembled document *)
DocumentText(tex) ==
    LET content == DictGet(tex, AllKey, None)
    IN  IF content = None THEN JoinLines(DictValues(tex))
        ELSE [raised |-> FALSE, val |-> content[1]]

(***************************************************************************)
(* The figure selector, paper.py lines 319-363.  A page is the sequence of *)
(* its figure elements [src], src being None for a figure without an image *)
(* source.  A reply of the model is a sequence of characters.              *)
(***************************************************************************)

Digits == {"0", "1", "2", "3", "4", "5", "6", "7", "8", "9"}

DigitVal ==
    [d \in Digits |->
        CHOOSE n \in 0..9 : <<"0", "1", "2", "3", "4", "5", "6", "7", "8", "9">>[n + 1] = d]

(* urljoin(url, img['src']) *)
UrlJoin(src) == <<"https://arxiv.org/html/", src>>

(* lines 322-330: the URLs of the figures that have an image source *)
FigureUrls(figures) ==
    LET withSrc == SelectSeq(figures, LAMBDA f : f.src # None)
    IN  [i \in 1..Len(withSrc) |-> UrlJoin(withSrc[i].src[1])]

(* re.search(r'-?\d+', result): where the first match starts, or 0 *)
IntStart(r) ==
    LET hits == {i \in 1..Len(r) :
                    \/ r[i] \in Digits
                    \/ (r[i] = "-" /\ i + 1 <= Len(r) /\ r[i + 1] \in Digits)}
    IN  IF hits = {} THEN 0 ELSE CHOOSE i \in hits : \A k \in hits : i <= k

(* the value of the decimal digits of r from position i on *)
RECURSIVE DigitsValue(_, _, _)
DigitsValue(r, i, acc) ==
    IF i > Len(r) \/ r[i] \notin Digits THEN acc
    ELSE DigitsValue(r, i + 1, 10 * acc + DigitVal[r[i]])

(* int(re.search(r'-?\d+', result).group(0)): None when no integer is      *)
(* found (the AttributeError of line 356)                                  *)
ParseIndex(r) ==
    LET i == IntStart(r)
    IN  IF i = 0 THEN None
        ELSE IF r[i] = "-" THEN Some(0 - DigitsValue(r, i + 1, 0))
        ELSE Some(DigitsValue(r, i, 0))

(* a plausible slip: an unusable reply gives no figure instead of the      *)
(* first one                                                               *)
ChooseFigureNoFallback(urls, reply) ==
    IF reply = None \/ ParseIndex(reply[1]) = None THEN None
    ELSE IF 0 <= ParseIndex(reply[1])[1] /\ ParseIndex(reply[1])[1] < Len(urls)
         THEN Some(urls[ParseIndex(reply[1])[1] + 1])
         ELSE None

(* lines 346-363 with two or more candidates: reply is None when           *)
(* llm.generate raises, Some(text) otherwise                               *)
ChooseFigure(urls, reply) ==
    LET idx == IF reply = None THEN None ELSE ParseIndex(reply[1])
    IN  IF idx # None /\ 0 <= idx[1] /\ idx[1] < Len(urls)
        THEN Some(urls[idx[1] + 1])
        ELSE Some(urls[1])

(* a plausible slip: the test of line 336 left out, so that the model is   *)
(* asked to choose among a single candidate                                *)
SelectFigureAlwaysAsk(page, reply) ==
    IF page.kind = "exc" \/ page.status # 200 THEN [val |-> None, llm |-> FALSE]
    ELSE IF FigureUrls(page.figures) = <<>> THEN [val |-> None, llm |-> FALSE]
         ELSE [val |-> ChooseFigure(FigureUrls(page.figures), reply), llm |-> TRUE]

(* lines 310-363: page is [kind, status, figures]; [val, llm] where llm    *)
(* tells whether the model was called                                      *)
SelectFigure(page, reply) ==
    IF page.kind = "exc" \/ page.status # 200 THEN [val |-> None, llm |-> FALSE]
    ELSE LET urls == FigureUrls(page.figures)
         IN  IF urls = <<>> THEN [val |-> None, llm |-> FALSE]
             ELSE IF Len(urls) = 1 THEN [val |-> Some(urls[1]), llm |-> FALSE]
             ELSE [val |-> ChooseFigure(urls, reply), llm |-> TRUE]

(***************************************************************************)
(* The enriched record: the lazily computed fields of ArxivPaper.          *)
(*                                                                         *)
(* st is [cache, runs]: cache[f] is None while the instance holds no value *)
(* for the field f and Some(v) once it holds v; runs[f] counts how often   *)
(* the body of f has run (each run makes the field's download, page fetch  *)
(* or model call at most once).  The result of a read is                   *)
(* [st, raised, val, hit, llm]: the state after it, whether it raised, the *)
(* value it returned, whether the cache served it, and what became of the  *)
(* field's own model call ("notcalled", "raised", "ok").                   *)
(***************************************************************************)

Fields ==
    {"tex", "tldr", "affiliations", "affiliations_from_html",
     "framework_figure", "code_url"}

NotFound == 404
HttpOk == 200

(* functools.cached_property, the value found in the instance *)
Hit(st, f) ==
    [st |-> st, raised |-> FALSE, val |-> st.cache[f][1], hit |-> TRUE,
     llm |-> "notcalled"]

(* a plausible slip: a plain property, which stores nothing *)
StoreNothing(st, f, b) ==
    [st |-> [cache |-> b.st.cache, runs |-> [b.st.runs EXCEPT ![f] = @ + 1]],
     raised |-> b.raised, val |-> b.val, hit |-> FALSE, llm |-> b.llm]

(* functools.cached_property, the value computed: b is the outcome of the  *)
(* body [st, raised, val, llm]; the value is stored when the body returns, *)
(* and nothing is stored when it raises                                    *)
Store(st, f, b) ==
    [st |-> [cache |-> IF b.raised THEN b.st.cache
                       ELSE [b.st.cache EXCEPT ![f] = Some(b.val)],
             runs |-> [b.st.runs EXCEPT ![f] = @ + 1]],
     raised |-> b.raised, val |-> b.val, hit |-> FALSE, llm |-> b.llm]

Return(st, v, llm) == [st |-> st, raised |-> FALSE, val |-> v, llm |-> llm]

Raise(st, llm) == [st |-> st, raised |-> TRUE, val |-> None, llm |-> llm]

(* a plausible slip: every HTTP error is re-raised, the 404 too *)
TexBodyRaiseAllHttp(st, dl) ==
    IF dl.kind = "http" THEN Raise(st, "notcalled")
    ELSE IF dl.kind = "exc" \/ dl.tar = None THEN Return(st, None, "notcalled")
    ELSE Return(st, Assemble(dl.tar[1]).tex, "notcalled")

(* lines 81-163.  dl is the outcome of download_source: [kind, code, tar]  *)
(* with kind "http" (an HTTPError with that code), "exc" (another          *)
(* exception) or "ok"; tar is None for a file tarfile cannot read.         *)
TexBody(st, dl) ==
    IF dl.kind = "http"
    THEN IF dl.code = NotFound THEN Return(st, None, "notcalled")
         ELSE Raise(st, "notcalled")
    ELSE IF dl.kind = "exc" THEN Return(st, None, "notcalled")
    ELSE IF dl.tar = None THEN Return(st, None, "notcalled")
    ELSE Return(st, Assemble(dl.tar[1]).tex, "notcalled")

GetTex(st, dl) ==
    IF st.cache["tex"] # None THEN Hit(st, "tex")
    ELSE Store(st, "tex", TexBody(st, dl))

(* lines 167-214.  e is [dl, reply]: reply is None when llm.generate       *)
(* raises.  Lines 173-186 compute introduction and conclusion, which       *)
(* nothing reads.                                                          *)
TldrBody(st, e) ==
    LET t == GetTex(st, e.dl)
    IN  IF t.raised THEN Raise(t.st, "notcalled")
        ELSE IF t.val # None /\ DocumentText(t.val[1]).raised
             THEN Raise(t.st, "notcalled")
        ELSE IF e.reply = None THEN Raise(t.st, "raised")
        ELSE Return(t.st, e.reply[1], "ok")

GetTldr(st, e) ==
    IF st.cache["tldr"] # None THEN Hit(st, "tldr")
    ELSE Store(st, "tldr", TldrBody(st, e))

(* lines 218-256.  e is [dl, reply, order]. *)
AffiliationsBody(st, e) ==
    LET t == GetTex(st, e.dl)
    IN  IF t.raised THEN Raise(t.st, "notcalled")
        ELSE IF t.val = None THEN Return(t.st, None, "notcalled")
        ELSE LET doc == DocumentText(t.val[1])
             IN  IF doc.raised THEN Raise(t.st, "notcalled")
                 ELSE IF ~HasAuthorRegion(doc.val)
                      THEN Return(t.st, None, "notcalled")
                 ELSE IF e.reply = None THEN Raise(t.st, "raised")
                 ELSE Return(t.st, ParseAffiliations(e.reply[1], e.order), "ok")

GetAffiliations(st, e) ==
    IF st.cache["affiliations"] # None THEN Hit(st, "affiliations")
    ELSE Store(st, "affiliations", AffiliationsBody(st, e))

(* "return self.affiliations": the outcome a of that read is the outcome   *)
(* of the body                                                             *)
Delegate(a) == [st |-> a.st, raised |-> a.raised, val |-> a.val, llm |-> "notcalled"]

(* lines 266-269: a is the read of self.affiliations at line 266, inside   *)
(* the try of line 262; when it raises, line 267 catches the exception and *)
(* line 269 reads self.affiliations again, with the outcomes e2            *)
ReturnOrRetry(a, e2) ==
    IF a.raised THEN Delegate(GetAffiliations(a.st, e2)) ELSE Delegate(a)

(* lines 291-304: sc is the list made of the scraped texts *)
ScrapedOrFallback(st, sc, e1) ==
    IF sc # None THEN Return(st, sc, "notcalled")
    ELSE Delegate(GetAffiliations(st, e1))

Mixed(a, sc) ==
    IF a.raised THEN Raise(a.st, "notcalled")
    ELSE IF sc = None THEN Return(a.st, a.val, "notcalled")
    ELSE IF a.val = None THEN Return(a.st, sc, "notcalled")
    ELSE Return(a.st, Some(sc[1] \o a.val[1]), "notcalled")

(* a plausible slip: the scraped entries and the document strategy's       *)
(* entries in one list                                                     *)
AffiliationsFromHtmlBodyMixed(st, page, e1, e2) ==
    Mixed(GetAffiliations(st, e1),
          IF page.kind = "resp" /\ page.status = HttpOk
          THEN ScrapeAffiliations(page.elems) ELSE None)

(* lines 261-304.  page is the outcome of requests.get: [kind, status,     *)
(* elems] with kind "exc" or "resp"; elems are the texts of the            *)
(* affiliation elements found in the author block.                         *)
AffiliationsFromHtmlBody(st, page, e1, e2) ==
    IF page.kind = "exc" THEN Delegate(GetAffiliations(st, e1))
    ELSE IF page.status # HttpOk THEN ReturnOrRetry(GetAffiliations(st, e1), e2)
    ELSE ScrapedOrFallback(st, ScrapeAffiliations(page.elems), e1)

GetAffiliationsFromHtml(st, page, e1, e2) ==
    IF st.cache["affiliations_from_html"] # None
    THEN Hit(st, "affiliations_from_html")
    ELSE Store(st, "affiliations_from_html",
               AffiliationsFromHtmlBody(st, page, e1, e2))

(* lines 309-363.  page is [kind, status, figures], reply None when        *)
(* llm.generate raises.                                                    *)
FrameworkFigureBody(st, page, reply) ==
    LET r == SelectFigure(page, reply)
    IN  Return(st, r.val,
               IF ~r.llm THEN "notcalled" ELSE IF reply = None THEN "raised" ELSE "ok")

GetFrameworkFigure(st, page, reply) ==
    IF st.cache["framework_figure"] # None THEN Hit(st, "framework_figure")
    ELSE Store(st, "framework_figure", FrameworkFigureBody(st, page, reply))

(* lines 57-77.  get1 and get2 are the outcomes of the two GET calls:      *)
(* "exc" (the call or .json() raises), "none" (count is 0), "found".       *)
CodeUrlBody(st, get1, get2) ==
    IF get1 = "exc" THEN Return(st, None, "notcalled")
    ELSE IF get1 = "none" THEN Return(st, None, "notcalled")
    ELSE IF get2 = "exc" THEN Return(st, None, "notcalled")
    ELSE IF get2 = "none" THEN Return(st, None, "notcalled")
    ELSE Return(st, Some(<<"https://github.com/", "repo">>), "notcalled")

GetCodeUrl(st, get1, get2) ==
    IF st.cache["code_url"] # None THEN Hit(st, "code_url")
    ELSE Store(st, "code_url", CodeUrlBody(st, get1, get2))

(***************************************************************************)
(* SpecTex: two archives with the same member names in the same order,     *)
(* and any contents, are assembled.                                        *)
(***************************************************************************)

MaxFiles == 3

FileNames ==
    { <<"paper", TEX>>, <<"appendix", TEX>>, <<"paper", BBL>>, <<"refs", BBL>>,
      <<"paper", BBL, BBL>>, <<"paper", BBL, TEX>> }

FileTexts ==
    { <<"a">>,
      <<BS, "begin{document}", "a">>,
      <<"%", BS, "begin{document}", NL, "a">> }

NameLists ==
    {ns \in UNION {[1..n -> FileNames] : n \in 0..MaxFiles} :
        \A i, j \in 1..Len(ns) : i # j => ns[i] # ns[j]}

(* the archives whose members are named ns: a .tex member holds any text *)
ArchivesOf(ns) ==
    {[i \in 1..Len(ns) |->
        [name |-> ns[i], data |-> IF EndsWith(ns[i], TEX) THEN d[i] ELSE <<>>]] :
     d \in [1..Len(ns) -> FileTexts]}

InitTex ==
    /\ \E ns \in NameLists : arA \in ArchivesOf(ns) /\ arB \in ArchivesOf(ns)
    /\ docA = None
    /\ docB = None
    /\ tpc = "packed"
    /\ NormIdle /\ ScrapeIdle /\ FigIdle /\ RecIdle /\ SrcIdle /\ BotIdle

AssembleA ==
    /\ tpc = "packed"
    /\ docA' = Some(Assemble(arA))
    /\ tpc' = "A"
    /\ UNCHANGED <<arA, arB, docB>>
    /\ UNCHANGED <<normVars, scrapeVars, figVars, recVars, srcVars, botVars>>

AssembleB ==
    /\ tpc = "A"
    /\ docB' = Some(Assemble(arB))
    /\ tpc' = "AB"
    /\ UNCHANGED <<arA, arB, docA>>
    /\ UNCHANGED <<normVars, scrapeVars, figVars, recVars, srcVars, botVars>>

NextTex == AssembleA \/ AssembleB

SpecTex == InitTex /\ [][NextTex]_vars

(* the last extension of a file name replaced by .tex *)
WithTexExtension(name) == SubSeq(name, 1, Len(name) - 1) \o <<TEX>>

(* the first .tex member, in enumeration order, whose normalized text      *)
(* holds the document-begin marker; None when there is none                *)
FirstWithDocBegin(ar) ==
    LET tex_files == TexFiles(Names(ar))
        hits == {i \in 1..Len(tex_files) :
                    HasDocBegin(Normalize(ExtractFile(ar, tex_files[i])))}
    IN  IF hits = {} THEN None
        ELSE Some(tex_files[CHOOSE i \in hits : \A k \in hits : i <= k])

(* the main file the priority order of the specification designates *)
PriorityMain(ar) ==
    LET tex_files == TexFiles(Names(ar))
        bbl_file == BblFiles(Names(ar))
    IN  IF Len(bbl_file) = 1 /\ WithTexExtension(bbl_file[1]) \in Range(tex_files)
        THEN Some(WithTexExtension(bbl_file[1]))
        ELSE IF Len(bbl_file) = 0 /\ Len(tex_files) = 1 THEN Some(tex_files[1])
        ELSE FirstWithDocBegin(ar)

(* C8: main-file selection follows the priority order: the single .bbl     *)
(* file's name with .tex when that file exists, else the single .tex file  *)
(* when there is no .bbl file, else the first .tex file in enumeration     *)
(* order that contains the document-begin marker, else none.               *)
C8_MainFollowsPriority ==
    (docA # None /\ docA[1].tex # None) => docA[1].main = PriorityMain(arA)

(* C9: the selected main file depends on the file names alone: two         *)
(* archives with the same file names have the same main file (or none),    *)
(* whatever the files contain.                                             *)
C9_MainFromNamesAlone ==
    (docA # None /\ docB # None) => docA[1].main = docB[1].main

(* the two archives agree, file by file, on whether the normalized text    *)
(* holds the document-begin marker                                         *)
SameMarkers ==
    \A i \in 1..Len(arA) :
        HasDocBegin(Normalize(arA[i].data)) = HasDocBegin(Normalize(arB[i].data))

(* C9, amended: when the file names designate the main file (lines         *)
(* 112-127) both archives have that main file whatever the files contain;  *)
(* otherwise the main file is decided by the contents, and two archives    *)
(* have the same main file if their files agree on holding the marker.     *)
C9_MainFromNamesOrMarkers ==
    (docA # None /\ docB # None) =>
        /\ (docA[1].tex # None /\ MainFromBbl(Names(arA)) # None) =>
                /\ docA[1].main = MainFromBbl(Names(arA))
                /\ docB[1].main = MainFromBbl(Names(arA))
        /\ SameMarkers => docA[1].main = docB[1].main

(* two archives of several .tex files whose names designate the main file  *)
(* and whose contents differ on the marker, both assembled                 *)
C9_Witness ==
    /\ docA # None /\ docB # None
    /\ ~SameMarkers
    /\ Len(TexFiles(Names(arA))) > 1
    /\ MainFromBbl(Names(arA)) # None
    /\ docA[1].main = docB[1].main

(***************************************************************************)
(* SpecNorm: the normalization pipeline applied to every text of up to     *)
(* MaxTextLen symbols, and applied again to its own result.                *)
(***************************************************************************)

MaxTextLen == 4

NormSymbols ==
    {BS, "%", NL, SP, "a", "begin{comment}", "end{comment}", "iffalse", "fi"}


InitNorm ==
    /\ text \in UNION {[1..n -> NormSymbols] : n \in 0..MaxTextLen}
    /\ once = None
    /\ twice = None
    /\ npc = "raw"
    /\ TexIdle /\ ScrapeIdle /\ FigIdle /\ RecIdle /\ SrcIdle /\ BotIdle

NormalizeOnce ==
    /\ npc = "raw"
    /\ once' = Some(Normalize(text))
    /\ npc' = "once"
    /\ UNCHANGED <<text, twice>>
    /\ UNCHANGED <<texVars, scrapeVars, figVars, recVars, srcVars, botVars>>

NormalizeAgain ==
    /\ npc = "once"
    /\ twice' = Some(Normalize(once[1]))
    /\ npc' = "twice"
    /\ UNCHANGED <<text, once>>
    /\ UNCHANGED <<texVars, scrapeVars, figVars, recVars, srcVars, botVars>>

NextNorm == NormalizeOnce \/ NormalizeAgain

SpecNorm == InitNorm /\ [][NextNorm]_vars

(* C10: normalization is idempotent: normalizing already-normalized text   *)
(* yields exactly the same text.                                           *)
C10_NormalizeIdempotent == npc = "twice" => twice = once

(***************************************************************************)
(* Spec: one ArxivPaper record read up to MaxAccesses times, in any order, *)
(* each read an atomic step (the code is synchronous and single-threaded). *)
(* Every download, page fetch and model call takes any of its outcomes.    *)
(***************************************************************************)

MaxAccesses == 3

ServiceUnavailable == 503

(* a one-file source with an author block; one without; two files of which *)
(* none holds the document-begin marker; an archive with no .tex file      *)
RecArchives ==
    { << [name |-> <<"paper", TEX>>,
          data |-> <<BS, "begin{document}", BS, "author", "a", BS, "maketitle", "a">>] >>,
      << [name |-> <<"paper", TEX>>, data |-> <<"a">>] >>,
      << [name |-> <<"paper", TEX>>, data |-> <<BS, "author", "a", BS, "maketitle">>],
         [name |-> <<"appendix", TEX>>, data |-> <<"a">>] >>,
      << [name |-> <<"readme", ".md">>, data |-> <<>>] >> }

Downloads ==
    {[kind |-> "http", code |-> c, tar |-> None] : c \in {NotFound, ServiceUnavailable}}
    \cup {[kind |-> "exc", code |-> 0, tar |-> None],
          [kind |-> "ok", code |-> 0, tar |-> None]}
    \cup {[kind |-> "ok", code |-> 0, tar |-> Some(a)] : a \in RecArchives}

TldrEnvs == [dl : Downloads, reply : {None, Some(<<"summary">>)}]

AffOrders ==
    {<<Unquote["'MIT'"], Unquote["'CMU'"]>>, <<Unquote["'CMU'"], Unquote["'MIT'"]>>}

AffEnvs ==
    [dl : Downloads, reply : {None, Some(<<"none">>), Some(<<"[", "MIT", "]">>)},
     order : {<<Unquote["'MIT'"], Unquote["'CMU'"]>>}]
    \cup [dl : Downloads,
          reply : {Some(<<"x", "[", "'MIT'", ",", "'CMU'", ",", "'MIT'", "]">>)},
          order : AffOrders]

AffPages ==
    {[kind |-> "exc", status |-> 0, elems |-> <<>>],
     [kind |-> "resp", status |-> NotFound, elems |-> <<>>],
     [kind |-> "resp", status |-> HttpOk, elems |-> << <<"a", "b">> >>],
     [kind |-> "resp", status |-> HttpOk,
      elems |-> << <<"M", "I", "T">>, Rep("x", AffTruncLen) \o <<"y">>,
                   Rep("x", AffTruncLen), <<"M", "I", "T">> >>]}

RecFigPages ==
    {[kind |-> "exc", status |-> 0, figures |-> <<>>],
     [kind |-> "resp", status |-> NotFound, figures |-> <<>>],
     [kind |-> "resp", status |-> HttpOk, figures |-> <<[src |-> None]>>],
     [kind |-> "resp", status |-> HttpOk, figures |-> <<[src |-> Some("a.png")]>>],
     [kind |-> "resp", status |-> HttpOk,
      figures |-> <<[src |-> Some("a.png")], [src |-> None], [src |-> Some("b.png")]>>]}

RecFigReplies == {None, Some(<<"1">>), Some(<<"-", "1">>), Some(<<"x">>)}

GetOutcomes == {"exc", "none", "found"}

St == [cache |-> cache, runs |-> runs]

(* The outcomes a read can consume: a read served from the cache consumes  *)
(* none, and a read that finds tex in the cache makes no download; for     *)
(* these one fixed outcome is drawn, which nothing reads.                  *)
Unused(S) == {CHOOSE x \in S : TRUE}

DownloadsFor(st) == IF st.cache["tex"] # None THEN Unused(Downloads) ELSE Downloads

TldrEnvsFor(st) ==
    IF st.cache["tldr"] # None THEN Unused(TldrEnvs)
    ELSE {e \in TldrEnvs : e.dl \in DownloadsFor(st)}

AffEnvsFor(st) ==
    IF st.cache["affiliations"] # None THEN Unused(AffEnvs)
    ELSE {e \in AffEnvs : e.dl \in DownloadsFor(st)}

AffPagesFor(st) ==
    IF st.cache["affiliations_from_html"] # None THEN Unused(AffPages) ELSE AffPages

(* line 266 is reached and the read of self.affiliations there raises *)
Line266Raises(st, page, e1) ==
    /\ st.cache["affiliations_from_html"] = None
    /\ page.kind = "resp" /\ page.status # HttpOk
    /\ GetAffiliations(st, e1).raised

FigPagesFor(st) ==
    IF st.cache["framework_figure"] # None THEN Unused(RecFigPages) ELSE RecFigPages

FigRepliesFor(st) ==
    IF st.cache["framework_figure"] # None THEN Unused(RecFigReplies) ELSE RecFigReplies

GetOutcomesFor(st) ==
    IF st.cache["code_url"] # None THEN Unused(GetOutcomes) ELSE GetOutcomes

Init ==
    /\ cache = [f \in Fields |-> None]
    /\ runs = [f \in Fields |-> 0]
    /\ last = None
    /\ nacc = 0
    /\ NormIdle /\ TexIdle /\ ScrapeIdle /\ FigIdle /\ SrcIdle /\ BotIdle

(* the read of field f ended with the result r; dl and page are the        *)
(* outcomes the field's own download and page fetch took (None when the    *)
(* read made none)                                                         *)
Finish(f, r, dl, page) ==
    /\ cache' = r.st.cache
    /\ runs' = r.st.runs
    /\ last' = Some([field |-> f, hit |-> r.hit, raised |-> r.raised,
                     val |-> IF r.raised THEN None ELSE Some(r.val),
                     llm |-> r.llm, dl |-> dl, page |-> page])
    /\ nacc' = nacc + 1
    /\ UNCHANGED <<normVars, texVars, scrapeVars, figVars, srcVars, botVars>>

(* the outcome x of the fetch the body made, None when the cache served   *)
(* the read                                                                *)
Fetched(r, x) == IF r.hit THEN None ELSE Some(x)

FinishTex(r, dl) == Finish("tex", r, Fetched(r, dl), None)

FinishHtml(r, page) == Finish("affiliations_from_html", r, None, Fetched(r, page))

AccessTex ==
    /\ nacc < MaxAccesses
    /\ \E dl \in DownloadsFor(St) : FinishTex(GetTex(St, dl), dl)

AccessTldr ==
    /\ nacc < MaxAccesses
    /\ \E e \in TldrEnvsFor(St) : Finish("tldr", GetTldr(St, e), None, None)

AccessAffiliations ==
    /\ nacc < MaxAccesses
    /\ \E e \in AffEnvsFor(St) :
         Finish("affiliations", GetAffiliations(St, e), None, None)

(* the second read of self.affiliations (line 269 after line 266 raised)   *)
(* takes outcomes of its own                                               *)
AccessAffiliationsFromHtml ==
    /\ nacc < MaxAccesses
    /\ \E page \in AffPagesFor(St), e1 \in AffEnvsFor(St) :
         \E e2 \in IF Line266Raises(St, page, e1)
                   THEN AffEnvsFor(GetAffiliations(St, e1).st) ELSE {e1} :
            FinishHtml(GetAffiliationsFromHtml(St, page, e1, e2), page)

AccessFrameworkFigure ==
    /\ nacc < MaxAccesses
    /\ \E page \in FigPagesFor(St), reply \in FigRepliesFor(St) :
         Finish("framework_figure", GetFrameworkFigure(St, page, reply), None, None)

AccessCodeUrl ==
    /\ nacc < MaxAccesses
    /\ \E get1 \in GetOutcomesFor(St), get2 \in GetOutcomesFor(St) :
         Finish("code_url", GetCodeUrl(St, get1, get2), None, None)

Next ==
    \/ AccessTex
    \/ AccessTldr
    \/ AccessAffiliations
    \/ AccessAffiliationsFromHtml
    \/ AccessFrameworkFigure
    \/ AccessCodeUrl

Spec == Init /\ [][Next]_vars

(* C1: every lazily computed field is computed at most once: its body, and *)
(* with it the field's download, page fetch or model call, runs at most    *)
(* once over any sequence of reads.                                        *)
C1_ComputedAtMostOnce == \A f \in Fields : runs[f] <= 1

(* C1, amended: once a read of a field has returned (a value or None), the *)
(* field keeps that value, later reads return it, and its body never runs  *)
(* again; a read that raises stores nothing.                               *)
C1_ComputedOnceReturned ==
    [][/\ \A f \in Fields :
            cache[f] # None => cache'[f] = cache[f] /\ runs'[f] = runs[f]
       /\ \A f \in Fields :
            (last'[1].field = f /\ cache[f] # None) =>
                /\ last'[1].hit /\ ~last'[1].raised
                /\ last'[1].val = cache[f]
       /\ \A f \in Fields :
            (last'[1].field = f /\ last'[1].raised) =>
                cache'[f] = None /\ cache[f] = None
       /\ \A f \in Fields :
            (last'[1].field = f /\ ~last'[1].raised) => cache'[f] = last'[1].val
      ]_vars

(* a field that holds None is read again and None is returned from the     *)
(* cache                                                                   *)
C1_Witness ==
    /\ last # None
    /\ last[1].hit
    /\ last[1].val = Some(None)
    /\ runs[last[1].field] = 1

(* C2: reading tex never raises, whatever the download does.               *)
C2_TexNeverRaises == (last # None /\ last[1].field = "tex") => ~last[1].raised

(* C2, amended: reading tex raises exactly when the download raises an     *)
(* HTTP error other than 404, which the code logs and re-raises; for every *)
(* other outcome it returns None or the assembled document.                *)
C2_TexRaisesOnlyOnHttpError ==
    (last # None /\ last[1].field = "tex" /\ ~last[1].hit) =>
        (last[1].raised <=>
            (last[1].dl[1].kind = "http" /\ last[1].dl[1].code # 404))

(* the download ended in a 404 and the read returned None *)
C2_Witness ==
    /\ last # None /\ last[1].field = "tex" /\ ~last[1].hit
    /\ last[1].dl[1].kind = "http" /\ last[1].dl[1].code = 404
    /\ last[1].val = Some(None)

(* C3: no exception escapes affiliations, affiliations_from_html,          *)
(* framework_figure or code_url, whatever the download, the page fetch and *)
(* the model call do.                                                      *)
C3_EnrichmentNeverRaises ==
    (last # None /\ last[1].field \in
        {"affiliations", "affiliations_from_html", "framework_figure", "code_url"})
    => ~last[1].raised

(* C4: once the document is assembled (None, a main text, or per-file      *)
(* texts with no main file), reading tldr calls the model, and returns the *)
(* summary when the call succeeds.                                         *)
C4_TldrReachesModel ==
    (last # None /\ last[1].field = "tldr" /\ ~last[1].hit /\ cache["tex"] # None) =>
        /\ last[1].llm # "notcalled"
        /\ last[1].llm = "ok" => ~last[1].raised

(* C7: affiliations_from_html is the affiliations result when the page is  *)
(* unavailable or no scraped text is kept, and is made of scraped entries  *)
(* only otherwise.                                                         *)
C7_FallbackNeverMixes ==
    (last # None /\ last[1].field = "affiliations_from_html"
        /\ ~last[1].hit /\ ~last[1].raised) =>
        LET page == last[1].page[1]
            kept == {Prefix(page.elems[k], 80) :
                        k \in {k \in 1..Len(page.elems) : Len(page.elems[k]) > 2}}
        IN  IF page.kind = "exc" \/ page.status # 200 \/ kept = {}
            THEN last[1].val = cache["affiliations"]
            ELSE /\ last[1].val[1] # None
                 /\ Range(last[1].val[1][1]) \subseteq kept

(* the page is a 404 and the document strategy gave a list, which is what  *)
(* affiliations_from_html returned                                         *)
C7_Witness ==
    /\ last # None /\ last[1].field = "affiliations_from_html"
    /\ ~last[1].hit /\ ~last[1].raised
    /\ last[1].page[1].status = 404
    /\ cache["affiliations"] # None
    /\ cache["affiliations"][1] # None
    /\ Len(cache["affiliations"][1][1]) = 2
    /\ last[1].val = cache["affiliations"]

(***************************************************************************)
(* SpecScrape: the page-scrape strategy applied to every page of up to     *)
(* MaxElems affiliation elements.                                          *)
(***************************************************************************)

MaxElems == 7

(* five institution names: the code only compares them and takes their    *)
(* length, so of the pages that differ by renaming them one is built, the  *)
(* one in which they first appear in this order                            *)
ShortNames ==
    << <<"M", "I", "T">>, <<"C", "M", "U">>, <<"E", "T", "H">>,
       <<"U", "C", "L">>, <<"K", "T", "H">> >>

(* a text too short to be kept, a text of exactly 80 characters and a      *)
(* longer one that is equal to it once cut to 80                           *)
ScrapeTexts ==
    Range(ShortNames)
    \cup {<<"a", "b">>, Rep("x", AffTruncLen), Rep("x", AffTruncLen) \o <<"y">>}

(* how many of the names the list l uses *)
NamesUsed(l) == Cardinality(Range(l) \cap Range(ShortNames))

(* the texts the next element may hold: any text that is not a name, a     *)
(* name already used, or the first unused name                             *)
NextTexts(l) ==
    (ScrapeTexts \ Range(ShortNames))
    \cup {ShortNames[k] : k \in 1..NamesUsed(l)}
    \cup (IF NamesUsed(l) < Len(ShortNames)
          THEN {ShortNames[NamesUsed(l) + 1]} ELSE {})

InitScrape ==
    /\ elems = <<>>
    /\ affOut = None
    /\ spc = "page"
    /\ NormIdle /\ TexIdle /\ FigIdle /\ RecIdle /\ SrcIdle /\ BotIdle

(* lines 279-284: the page holds one more affiliation element *)
Element ==
    /\ spc = "page"
    /\ Len(elems) < MaxElems
    /\ \E t \in NextTexts(elems) : elems' = Append(elems, t)
    /\ UNCHANGED <<affOut, spc>>
    /\ UNCHANGED <<normVars, texVars, figVars, recVars, srcVars, botVars>>

(* lines 286-304 on the elements of the page *)
Scrape ==
    /\ spc = "page"
    /\ affOut' = Some(ScrapeAffiliations(elems))
    /\ spc' = "done"
    /\ UNCHANGED elems
    /\ UNCHANGED <<normVars, texVars, figVars, recVars, srcVars, botVars>>

NextScrape == Element \/ Scrape

SpecScrape == InitScrape /\ [][NextScrape]_vars

(* where the text x, cut to 80 characters, is first seen among the scraped *)
(* elements; 0 when it is not among them                                   *)
FirstSeen(x) ==
    LET hits == {k \in 1..Len(elems) : Prefix(elems[k], AffTruncLen) = x}
    IN  IF hits = {} THEN 0 ELSE CHOOSE k \in hits : \A m \in hits : k <= m

MaxFigures == 3

MinIndex == 2
MaxIndex == 12

(* the decimal digits of n >= 0 *)
RECURSIVE Decimal(_)
Decimal(n) ==
    IF n < 10 THEN <<CHOOSE d \in Digits : DigitVal[d] = n>>
    ELSE Decimal(n \div 10) \o <<CHOOSE d \in Digits : DigitVal[d] = n % 10>>

(* str(n) *)
IntText(n) == IF n < 0 THEN <<"-">> \o Decimal(0 - n) ELSE Decimal(n)

FigureSrcs == {None, Some("a.png"), Some("b.png"), Some("c.png")}

FigurePages ==
    {[kind |-> "exc", status |-> 0, figures |-> <<>>],
     [kind |-> "resp", status |-> 404, figures |-> <<>>]}
    \cup {[kind |-> "resp", status |-> 200, figures |-> fs] :
            fs \in UNION {[1..n -> [src : FigureSrcs]] : n \in 0..MaxFigures}}

FigureReplies ==
    {[text |-> None, int |-> None]}
    \cup {[text |-> Some(t), int |-> None] :
            t \in {<<>>, <<"x">>, <<"-">>, <<"-", "x", "-">>}}
    \cup {[text |-> Some(pre \o IntText(n) \o post), int |-> Some(n)] :
            n \in (0 - MinIndex)..MaxIndex,
            pre \in {<<>>, <<"x">>, <<"-", " ">>},
            post \in {<<>>, <<"x">>, <<".", "5">>}}

InitFigure ==
    /\ figPage \in {Some(pg) : pg \in FigurePages}
    /\ figReply \in FigureReplies
    /\ figOut = None
    /\ fpc = "fetched"
    /\ NormIdle /\ TexIdle /\ ScrapeIdle /\ RecIdle /\ SrcIdle /\ BotIdle

Select ==
    /\ fpc = "fetched"
    /\ figOut' = Some(SelectFigure(figPage[1], figReply.text))
    /\ fpc' = "done"
    /\ UNCHANGED <<figPage, figReply>>
    /\ UNCHANGED <<normVars, texVars, scrapeVars, recVars, srcVars, botVars>>

NextFigure == Select

SpecFigure == InitFigure /\ [][NextFigure]_vars

(* the candidates of the page: the URLs of its figures with an image       *)
Candidates ==
    IF figPage[1].kind = "resp" /\ figPage[1].status = 200
    THEN FigureUrls(figPage[1].figures) ELSE <<>>

(* C5: figure selection is total: with a non-empty candidate list, every   *)
(* reply (a valid index, -1, an out-of-range integer, text without an      *)
(* integer, the call raising) gives the URL of a candidate: the candidate  *)
(* at a valid in-range index, candidate 0 for every other reply.           *)
C5_FigureTotal ==
    (figOut # None /\ Candidates # <<>>) =>
        LET n == figReply.int
            valid == n # None /\ 0 <= n[1] /\ n[1] < Len(Candidates)
        IN  /\ figOut[1].val # None
            /\ figOut[1].val[1] \in Range(Candidates)
            /\ valid => figOut[1].val[1] = Candidates[n[1] + 1]
            /\ ~valid => figOut[1].val[1] = Candidates[1]

(* three candidates, the reply names the last one, and it is selected      *)
C5_Witness ==
    /\ figOut # None
    /\ Len(Candidates) = 3
    /\ figReply.int = Some(2)
    /\ Candidates[3] # Candidates[1]
    /\ figOut[1].val = Some(Candidates[3])

(* three candidates, the reply is -1, and candidate 0 is selected          *)
C5_WitnessFallback ==
    /\ figOut # None
    /\ Len(Candidates) = 3
    /\ figReply.int = Some(0 - 1)
    /\ figOut[1].val = Some(Candidates[1])

(* C13: the model is called exactly when the page yields two or more       *)
(* candidates: one candidate is returned as it is, and a failed fetch or a *)
(* page without candidates gives None, both without a call of the model.   *)
C13_ModelCalledOnlyForSeveral ==
    figOut # None =>
        /\ figOut[1].llm <=> Len(Candidates) >= 2
        /\ Len(Candidates) = 1 => figOut[1].val = Some(Candidates[1])
        /\ Len(Candidates) = 0 => figOut[1].val = None

(* a page of several figures of which one has an image: it is returned and *)
(* the model was not called, whatever it would have replied                *)
C13_Witness ==
    /\ figOut # None
    /\ Len(figPage[1].figures) >= 2
    /\ Len(Candidates) = 1
    /\ figReply.int = Some(1)
    /\ ~figOut[1].llm
    /\ figOut[1].val = Some(Candidates[1])

(***************************************************************************)
(* SpecInline: archives whose files refer to one another with \input and   *)
(* \include are assembled.                                                 *)
(***************************************************************************)

InlineNames ==
    { <<"paper", TEX>>, <<"sec", TEX>>, <<"sub", TEX>>, <<"paper", BBL>> }

(* texts with a reference by \input, by \include, with and without the     *)
(* extension, to a file that refers to another, and to a file the archive  *)
(* does not hold                                                           *)
InlineTexts ==
    { <<"a">>,
      <<BS, "begin{document}", BS, "input{", "sec", "}", "a">>,
      <<BS, "begin{document}", BS, "include{", "sec", "}">>,
      <<BS, "input{", "sub", TEX, "}", "a">>,
      <<BS, "input{", "gone", "}", "a">>,
      <<BS, "input{", "sec", "}", BS, "input{", "sub", "}">> }

InlineNameLists ==
    {ns \in UNION {[1..n -> InlineNames] : n \in 0..MaxFiles} :
        \A i, j \in 1..Len(ns) : i # j => ns[i] # ns[j]}

InlineArchivesOf(ns) ==
    {[i \in 1..Len(ns) |->
        [name |-> ns[i], data |-> IF EndsWith(ns[i], TEX) THEN d[i] ELSE <<>>]] :
     d \in [1..Len(ns) -> InlineTexts]}

InitInline ==
    /\ \E ns \in InlineNameLists : arA \in InlineArchivesOf(ns)
    /\ arB = <<>>
    /\ docA = None
    /\ docB = None
    /\ tpc = "packed"
    /\ NormIdle /\ ScrapeIdle /\ FigIdle /\ RecIdle /\ SrcIdle /\ BotIdle

NextInline == AssembleA

SpecInline == InitInline /\ [][NextInline]_vars

(* the main text of the assembled document: file_contents["all"] *)
MainText == DictGet(docA[1].tex[1], AllKey, None)[1]

(* C11: when a main file is designated, the main text holds no \input{f}   *)
(* and no \include{f} reference any more: each one, in the main file and   *)
(* in the files it pulls in, has been replaced by the referenced text.     *)
C11_NoReferenceRemains ==
    (docA # None /\ docA[1].main # None) =>
        /\ FindAll(MainText, 1, "input{") = <<>>
        /\ FindAll(MainText, 1, "include{") = <<>>

(***************************************************************************)
(* SpecSource: the source record an ArxivPaper wraps (self._paper) and the *)
(* reads of the accessors, paper.py lines 21-53.  The source record is     *)
(* [title, summary, authors, short_id, pdf_url, links]: short_id is the    *)
(* text get_short_id() gives, pdf_url is None or Some(url), links is None  *)
(* or Some(list of [href]).  A URL is a sequence of symbols, "abs" and     *)
(* "pdf" among them.                                                       *)
(***************************************************************************)

MaxReads == 3

(* re.sub(r'v\d+$', '', short_id): a final "v" and digits are cut *)
StripVersion(id) ==
    LET hits == {i \in 1..(Len(id) - 1) :
                    id[i] = "v" /\ \A k \in (i + 1)..Len(id) : id[k] \in Digits}
    IN  IF hits = {} THEN id
        ELSE SubSeq(id, 1, (CHOOSE i \in hits : \A k \in hits : i <= k) - 1)

(* lines 37-39: the value of arxiv_id, computed or taken from the instance *)
ArxivId(p, idc) == IF idc # None THEN idc[1] ELSE StripVersion(p.short_id)

(* href.replace('abs', 'pdf') *)
AbsToPdf(href) == [i \in 1..Len(href) |-> IF href[i] = "abs" THEN "pdf" ELSE href[i]]

(* lines 46-48: the URL made for a record without one; links is not empty *)
DerivedPdfUrl(p, idc) ==
    IF p.links # None THEN AbsToPdf(p.links[1][1].href)
    ELSE <<"https://arxiv.org/", "pdf", "/">> \o ArxivId(p, idc) \o <<".pdf">>

(* the outcome of an accessor: the source record and the cached arxiv_id   *)
(* after it, whether it raised, and the value returned                     *)
SrcReturn(p, idc, v) == [paper |-> p, idc |-> idc, raised |-> FALSE, val |-> Some(v)]

SrcRaise(p, idc) == [paper |-> p, idc |-> idc, raised |-> TRUE, val |-> None]

(* a plausible slip: the test of line 43 left out, so that the URL is made *)
(* and assigned even when the source record has one                        *)
PdfUrlBodyOverwrite(p, idc) ==
    IF p.links # None /\ p.links[1] = <<>>
    THEN SrcRaise(p, Some(ArxivId(p, idc)))
    ELSE SrcReturn([p EXCEPT !.pdf_url = Some(DerivedPdfUrl(p, idc))],
                   Some(ArxivId(p, idc)), DerivedPdfUrl(p, idc))

(* lines 42-53.  links[0] of an empty list raises IndexError at line 48,   *)
(* after arxiv_id was read at line 46.                                     *)
PdfUrlBody(p, idc) ==
    IF p.pdf_url # None THEN SrcReturn(p, idc, p.pdf_url[1])
    ELSE IF p.links # None /\ p.links[1] = <<>>
         THEN SrcRaise(p, Some(ArxivId(p, idc)))
         ELSE SrcReturn([p EXCEPT !.pdf_url = Some(DerivedPdfUrl(p, idc))],
                        Some(ArxivId(p, idc)), DerivedPdfUrl(p, idc))

SrcShortIds ==
    { <<"2", "5", ".", "1">>, <<"2", "5", ".", "1", "v", "2">>, <<"v", "1", "/", "7", "v", "1", "2">> }

SrcHrefs ==
    { <<"https://arxiv.org/", "abs", "/", "2", "5", ".", "1">>,
      <<"https://", "abs", ".org/", "abs", "/", "7">> }

SrcLinks ==
    {None, Some(<<>>)}
    \cup {Some(<<[href |-> h]>>) : h \in SrcHrefs}
    \cup {Some(<<[href |-> h], [href |-> g]>>) : h \in SrcHrefs, g \in SrcHrefs}

SourceRecords ==
    [title : {<<"t">>}, summary : {<<"s">>}, authors : {<<"A", "B">>},
     short_id : SrcShortIds,
     pdf_url : {None, Some(<<"https://arxiv.org/", "pdf", "/", "2", "5", ".", "1", "v", "2">>)},
     links : SrcLinks]

(* lines 21-23 *)
InitSource ==
    /\ paper0 \in {Some(p) : p \in SourceRecords}
    /\ paper = paper0
    /\ idCache = None
    /\ srcLast = None
    /\ nsrc = 0
    /\ NormIdle /\ TexIdle /\ ScrapeIdle /\ FigIdle /\ RecIdle /\ BotIdle

SrcFinish(f, r) ==
    /\ paper' = Some(r.paper)
    /\ idCache' = r.idc
    /\ srcLast' = Some([field |-> f, raised |-> r.raised, val |-> r.val])
    /\ nsrc' = nsrc + 1
    /\ UNCHANGED paper0
    /\ UNCHANGED <<normVars, texVars, scrapeVars, figVars, recVars, botVars>>

(* lines 25-27 *)
ReadTitle ==
    /\ nsrc < MaxReads
    /\ SrcFinish("title", SrcReturn(paper[1], idCache, paper[1].title))

(* lines 29-31 *)
ReadSummary ==
    /\ nsrc < MaxReads
    /\ SrcFinish("summary", SrcReturn(paper[1], idCache, paper[1].summary))

(* lines 33-35 *)
ReadAuthors ==
    /\ nsrc < MaxReads
    /\ SrcFinish("authors", SrcReturn(paper[1], idCache, paper[1].authors))

(* lines 37-39 *)
ReadArxivId ==
    /\ nsrc < MaxReads
    /\ SrcFinish("arxiv_id", SrcReturn(paper[1], Some(ArxivId(paper[1], idCache)),
                                       ArxivId(paper[1], idCache)))

(* lines 41-53 *)
ReadPdfUrl ==
    /\ nsrc < MaxReads
    /\ SrcFinish("pdf_url", PdfUrlBody(paper[1], idCache))

(* lines 55-363: a lazily computed field is read.  Its body reads the      *)
(* source record (title, summary, get_short_id, download_source) and       *)
(* assigns nothing to it; readsId tells whether the run read arxiv_id,     *)
(* raised whether it raised.                                               *)
ReadLazy ==
    /\ nsrc < MaxReads
    /\ \E f \in Fields, readsId \in BOOLEAN, raised \in BOOLEAN :
         SrcFinish(f, [paper |-> paper[1],
                       idc |-> IF readsId THEN Some(ArxivId(paper[1], idCache))
                               ELSE idCache,
                       raised |-> raised, val |-> None])

NextSource ==
    \/ ReadTitle
    \/ ReadSummary
    \/ ReadAuthors
    \/ ReadArxivId
    \/ ReadPdfUrl
    \/ ReadLazy

SpecSource == InitSource /\ [][NextSource]_vars

(* C12: the wrapped source record is never mutated: after any sequence of  *)
(* accessor reads every field of it, the optional PDF URL included, has    *)
(* the value it had at construction.                                       *)
C12_SourceNeverMutated == paper # None => paper = paper0

(* C12, amended: title, summary, authors, identifier and links of the      *)
(* source record never change, and a PDF URL it has never changes; a       *)
(* source record without a PDF URL is given the derived URL by a read of   *)
(* pdf_url that returns, and holds the value every such read returned.     *)
C12_OnlyPdfUrlFilledIn ==
    paper # None =>
        /\ [paper[1] EXCEPT !.pdf_url = None] = [paper0[1] EXCEPT !.pdf_url = None]
        /\ paper0[1].pdf_url # None => paper[1].pdf_url = paper0[1].pdf_url
        /\ paper0[1].pdf_url = None =>
             IF paper0[1].links = Some(<<>>) THEN paper[1].pdf_url = None
             ELSE paper[1].pdf_url \in {None, Some(DerivedPdfUrl(paper0[1], None))}
        /\ (srcLast # None /\ srcLast[1].field = "pdf_url" /\ ~srcLast[1].raised) =>
             paper[1].pdf_url = srcLast[1].val
        /\ (srcLast # None /\ srcLast[1].field = "pdf_url" /\ srcLast[1].raised) =>
             paper0[1].pdf_url = None /\ paper0[1].links = Some(<<>>)

(* a source record without a PDF URL and with links was read for pdf_url   *)
(* and now holds the first link with "abs" replaced                        *)
C12_Witness ==
    /\ paper # None /\ srcLast # None
    /\ srcLast[1].field = "pdf_url"
    /\ paper0[1].pdf_url = None
    /\ paper0[1].links # None /\ paper0[1].links[1] # <<>>
    /\ paper[1].pdf_url = Some(AbsToPdf(paper0[1].links[1][1].href))
    /\ paper # paper0

(***************************************************************************)
(* SpecBot: one call of send_feishu_message, feishu_bot.py lines 174-292.  *)
(*                                                                         *)
(* grouped_results is the sequence of its items [name, papers] in          *)
(* dictionary order; a paper is [dir, pos], the place it has in the        *)
(* input.  A card is a record of what it shows: the overview card its      *)
(* tables, a detail card its direction, batch numbers and entries          *)
(* [index, paper].  sent is the sequence of [card, ok] of the cards posted *)
(* so far, ok being what _send_card_message returned.                      *)
(***************************************************************************)

MaxDirections == 2
MaxPapers == 6

(* line 253 *)
BATCH_SIZE == 5

(* line 188 *)
RECURSIVE Total(_, _)
Total(g, d) == IF d > Len(g) THEN 0 ELSE Len(g[d].papers) + Total(g, d + 1)

(* lines 193-205 *)
EmptyCard == [kind |-> "empty"]

(* build_paper_table, lines 60-88: one row per paper, numbered from        *)
(* start_index                                                             *)
BuildPaperTable(papers, start_index) ==
    [i \in 1..Len(papers) |-> [index |-> start_index + i - 1, paper |-> papers[i]]]

(* lines 227-233: a table for every direction that has papers *)
RECURSIVE OverviewTables(_, _)
OverviewTables(g, d) ==
    IF d > Len(g) THEN <<>>
    ELSE IF g[d].papers = <<>> THEN OverviewTables(g, d + 1)
    ELSE <<[name |-> g[d].name, rows |-> BuildPaperTable(g[d].papers, 1)]>>
         \o OverviewTables(g, d + 1)

(* lines 211-245 *)
OverviewCard(g) ==
    [kind |-> "overview", total |-> Total(g, 1), direction_count |-> Len(g),
     tables |-> OverviewTables(g, 1)]

(* papers[batch_start:batch_start + BATCH_SIZE], batch_start 0-based *)
Batch(papers, batch_start) ==
    SubSeq(papers, batch_start + 1,
           IF batch_start + BATCH_SIZE < Len(papers)
           THEN batch_start + BATCH_SIZE ELSE Len(papers))

(* a plausible slip: the papers of a card numbered from 1 in every card *)
DetailEntriesFromOne(batch_papers, batch_start) ==
    [i \in 1..Len(batch_papers) |-> [index |-> i, paper |-> batch_papers[i]]]

(* lines 266-269: build_paper_detail_element(paper, global_idx) for the    *)
(* papers of the batch                                                     *)
DetailEntries(batch_papers, batch_start) ==
    [i \in 1..Len(batch_papers) |->
        [index |-> batch_start + (i - 1) + 1, paper |-> batch_papers[i]]]

(* lines 260-282 *)
DetailCard(g, d, batch_start) ==
    [kind |-> "detail", name |-> g[d].name,
     batch_num |-> (batch_start \div BATCH_SIZE) + 1,
     total_batches |-> (Len(g[d].papers) + BATCH_SIZE - 1) \div BATCH_SIZE,
     entries |-> DetailEntries(Batch(g[d].papers, batch_start), batch_start)]

(* lines 255-257: the first direction from d on that has papers, at its    *)
(* first batch; None when there is none                                    *)
RECURSIVE FirstBatch(_, _)
FirstBatch(g, d) ==
    IF d > Len(g) THEN None
    ELSE IF g[d].papers = <<>> THEN FirstBatch(g, d + 1)
    ELSE Some([d |-> d, batch_start |-> 0])

(* lines 255-259: the batch after the one at pos *)
NextBatch(g, pos) ==
    IF pos.batch_start + BATCH_SIZE < Len(g[pos.d].papers)
    THEN Some([d |-> pos.d, batch_start |-> pos.batch_start + BATCH_SIZE])
    ELSE FirstBatch(g, pos.d + 1)

GroupedResults ==
    UNION {{[d \in 1..n |->
               [name |-> <<"direction", d>>,
                papers |-> [i \in 1..size[d] |-> [dir |-> d, pos |-> i]]]] :
            size \in [1..n -> 0..MaxPapers]} : n \in 0..MaxDirections}

InitBot ==
    /\ grouped \in GroupedResults
    /\ sent = <<>>
    /\ success = TRUE
    /\ bpos = None
    /\ bpc = "start"
    /\ ret = None
    /\ NormIdle /\ TexIdle /\ ScrapeIdle /\ FigIdle /\ RecIdle /\ SrcIdle

(* lines 191-206: no paper at all; ok is the result of _send_card_message  *)
(* (lines 141-171: False for an answer whose code is not 0 and for any     *)
(* exception)                                                              *)
SendEmpty ==
    /\ bpc = "start"
    /\ Total(grouped, 1) = 0
    /\ \E ok \in BOOLEAN :
         /\ sent' = Append(sent, [card |-> EmptyCard, ok |-> ok])
         /\ ret' = Some(ok)
    /\ bpc' = "returned"
    /\ UNCHANGED <<grouped, success, bpos>>
    /\ UNCHANGED <<normVars, texVars, scrapeVars, figVars, recVars, srcVars>>

(* lines 208-250 *)
SendOverview ==
    /\ bpc = "start"
    /\ Total(grouped, 1) > 0
    /\ \E ok \in BOOLEAN :
         /\ sent' = Append(sent, [card |-> OverviewCard(grouped), ok |-> ok])
         /\ success' = ok
    /\ bpos' = FirstBatch(grouped, 1)
    /\ bpc' = "details"
    /\ UNCHANGED <<grouped, ret>>
    /\ UNCHANGED <<normVars, texVars, scrapeVars, figVars, recVars, srcVars>>

(* lines 259-287: one batch is built and its card posted *)
SendDetail ==
    /\ bpc = "details"
    /\ bpos # None
    /\ \E ok \in BOOLEAN :
         /\ sent' = Append(sent, [card |-> DetailCard(grouped, bpos[1].d, bpos[1].batch_start),
                                  ok |-> ok])
         /\ success' = (success /\ ok)
    /\ bpos' = NextBatch(grouped, bpos[1])
    /\ UNCHANGED <<grouped, bpc, ret>>
    /\ UNCHANGED <<normVars, texVars, scrapeVars, figVars, recVars, srcVars>>

(* lines 232 and 268: building a card reads the accessors of its papers    *)
(* (pdf_url at line 83; code_url, affiliations_from_html, framework_figure *)
(* and tldr at lines 112-136), outside any try: when one of them raises,   *)
(* the exception leaves send_feishu_message before the card is posted.     *)
BuildRaises ==
    /\ \/ bpc = "start" /\ Total(grouped, 1) > 0
       \/ bpc = "details" /\ bpos # None
    /\ bpc' = "raised"
    /\ UNCHANGED <<grouped, sent, success, bpos, ret>>
    /\ UNCHANGED <<normVars, texVars, scrapeVars, figVars, recVars, srcVars>>

(* lines 289-292 *)
ReturnSuccess ==
    /\ bpc = "details"
    /\ bpos = None
    /\ ret' = Some(success)
    /\ bpc' = "returned"
    /\ UNCHANGED <<grouped, sent, success, bpos>>
    /\ UNCHANGED <<normVars, texVars, scrapeVars, figVars, recVars, srcVars>>

NextBot ==
    \/ SendEmpty
    \/ SendOverview
    \/ SendDetail
    \/ BuildRaises
    \/ ReturnSuccess

SpecBot == InitBot /\ [][NextBot]_vars

(* ceil(n / k) *)
CeilDiv(n, k) == (n + k - 1) \div k

(* the b-th detail card of direction d: the papers at positions            *)
(* 5(b-1)+1 .. min(5b, n) of its list, each with its position              *)
ExpectedDetailCard(d, b) ==
    LET papers == grouped[d].papers
        first == 5 * (b - 1) + 1
        final == IF 5 * b < Len(papers) THEN 5 * b ELSE Len(papers)
    IN  [kind |-> "detail", name |-> grouped[d].name,
         batch_num |-> b, total_batches |-> CeilDiv(Len(papers), 5),
         entries |-> [j \in 1..(final - first + 1) |->
                        [index |-> first + j - 1, paper |-> papers[first + j - 1]]]]

(* the detail cards of the directions from d on, in dictionary order:      *)
(* ceil(n/5) cards for a direction of n papers, none for an empty one      *)
RECURSIVE ExpectedDetails(_)
ExpectedDetails(d) ==
    IF d > Len(grouped) THEN <<>>
    ELSE [b \in 1..CeilDiv(Len(grouped[d].papers), 5) |-> ExpectedDetailCard(d, b)]
         \o ExpectedDetails(d + 1)

(* the detail cards posted so far *)
SentDetails == [i \in 1..(Len(sent) - 1) |-> sent[i + 1].card]

(* in how many entries of the detail cards posted the paper at position k  *)
(* of direction d appears, and in how many it appears with the number k    *)
Appearances(d, k) ==
    {<<i, j>> \in (1..Len(sent)) \X (1..BATCH_SIZE) :
        /\ sent[i].card.kind = "detail"
        /\ j <= Len(sent[i].card.entries)
        /\ sent[i].card.entries[j].paper = grouped[d].papers[k]}

AllSendsOk == \A i \in 1..Len(sent) : sent[i].ok

(* C14: a call with at least one paper posts the overview card and then,   *)
(* for each non-empty direction in dictionary order, ceil(n/5) detail      *)
(* cards of at most 5 papers, every paper in exactly one card, in list     *)
(* order, numbered by its position; failed sends stop nothing, and the     *)
(* call returns True exactly when every send succeeded.  A call with no    *)
(* paper posts one card and returns the result of that send.               *)
C14_AllCardsSent ==
    bpc \in {"returned", "raised"} =>
        IF Total(grouped, 1) = 0
        THEN Len(sent) = 1 /\ ret = Some(sent[1].ok)
        ELSE /\ Len(sent) >= 1 /\ sent[1].card.kind = "overview"
             /\ SentDetails = ExpectedDetails(1)
             /\ ret = Some(AllSendsOk)

(* C14, amended: the cards posted are at every moment the first cards of   *)
(* that sequence (overview, then the detail cards in order), whatever the  *)
(* sends returned; a call that returns has posted all of them, every paper *)
(* in exactly one detail card under its position, and returns True exactly *)
(* when every send succeeded; a call in which building a card raises ends  *)
(* with that exception, returns nothing, and has posted the cards before   *)
(* that card only.                                                         *)
C14_CardsSentUntilRaise ==
    bpc # "idle" =>
        /\ Total(grouped, 1) = 0 =>
             /\ bpc \in {"start", "returned"}
             /\ bpc = "returned" =>
                  /\ Len(sent) = 1 /\ sent[1].card.kind = "empty"
                  /\ ret = Some(sent[1].ok)
        /\ Total(grouped, 1) > 0 =>
             /\ Len(sent) >= 1 => sent[1].card = OverviewCard(grouped)
             /\ Len(SentDetails) <= Len(ExpectedDetails(1))
             /\ SentDetails = SubSeq(ExpectedDetails(1), 1, Len(SentDetails))
             /\ \A i \in 1..Len(SentDetails) :
                  Len(SentDetails[i].entries) \in 1..5
             /\ bpc = "returned" =>
                  /\ Len(sent) = 1 + Len(ExpectedDetails(1))
                  /\ ret = Some(AllSendsOk)
                  /\ \A d \in 1..Len(grouped) : \A k \in 1..Len(grouped[d].papers) :
                       /\ Cardinality(Appearances(d, k)) = 1
                       /\ \A a \in Appearances(d, k) :
                            sent[a[1]].card.entries[a[2]].index = k
             /\ bpc = "raised" =>
                  /\ ret = None
                  /\ Len(sent) < 1 + Len(ExpectedDetails(1))
             /\ bpc \in {"start", "details"} => ret = None

(* a direction of six papers took two detail cards, the send of the first  *)
(* failed, the second was posted all the same, and False was returned      *)
C14_Witness ==
    /\ bpc = "returned"
    /\ Len(grouped) = 2
    /\ Len(grouped[1].papers) = 0
    /\ Len(grouped[2].papers) = 6
    /\ Len(sent) = 3
    /\ sent[1].ok /\ ~sent[2].ok /\ sent[3].ok
    /\ sent[3].card.entries = <<[index |-> 6, paper |-> grouped[2].papers[6]]>>
    /\ ret = Some(FALSE)

(* building the second detail card raised: the overview and the first      *)
(* detail card were posted and nothing was returned                        *)
C14_WitnessRaised ==
    /\ bpc = "raised"
    /\ Len(sent) = 2
    /\ Len(ExpectedDetails(1)) >= 2
    /\ ret = None

=============================================================================
